---- MODULE Spec2Model ----
(***************************************************************************)
(* A model of the FRED_API repository: the TTL cache of CacheTool.py       *)
(* (class Cacher) and the caching request layer of FRED_API.py             *)
(* (Application.make_caching_request / make_api_request), and the          *)
(* depth-first traversal of the category hierarchy (process_category).     *)
(*                                                                         *)
(* Time is counted in minutes.  Python and JSON values are tagged records, *)
(* so that values of different Python types can be compared.              *)
(***************************************************************************)
EXTENDS Integers, Sequences, FiniteSets, TLC

(***************************************************************************)
(* Bounds of the model.                                                    *)
(***************************************************************************)
MaxSteps == 5       \* operations (calls and clock advances) per behaviour
MaxRuns == 2        \* runs of main, one after the other, per behaviour

(***************************************************************************)
(* Program constants.                                                      *)
(***************************************************************************)
DEFAULT_CACHE_EXPIRATION == 24
API_KEY_PARAM_NAME == "api_key"

Keys == {"u1", "u2"}            \* cache keys: request URLs without credential
TickSteps == {1, 2, 1439}       \* one or two minutes; 23 h 59 min

(***************************************************************************)
(* Python values.  A str carries a text record: plain text, or text with   *)
(* the shape of an ISO-8601 date-time (with or without a UTC offset).      *)
(***************************************************************************)
Plain(chars) == [form |-> "plain", chars |-> chars]
IsoText(local, off) == [form |-> "iso", local |-> local, off |-> off]
NaiveText(local) == [form |-> "naive", local |-> local]

PyNone == [t |-> "none"]
PyStr(s) == [t |-> "str", s |-> s]
PyInt(n) == [t |-> "int", n |-> n]
PyList(items) == [t |-> "list", items |-> items]
PyDict(m) == [t |-> "dict", m |-> m]

EmptyDict == PyDict([k \in {} |-> PyNone])

\* Python truth value of v, as tested by "if timestampStr" and "if not data".
Truthy(v) ==
    CASE v.t = "none" -> FALSE
      [] v.t = "str" -> v.s # Plain("")
      [] v.t = "int" -> v.n # 0
      [] v.t = "list" -> v.items # <<>>
      [] v.t = "dict" -> DOMAIN v.m # {}

\* dict.get(k): the value at k, None when k is no key of d.
DictGet(d, k) == IF k \in DOMAIN d.m THEN d.m[k] ELSE PyNone

\* d[k] = v on a dict.
DictSet(d, k, v) ==
    PyDict([x \in DOMAIN d.m \cup {k} |-> IF x = k THEN v ELSE d.m[x]])

(***************************************************************************)
(* Timestamps.                                                             *)
(***************************************************************************)
\* timedelta(hours = h), in minutes.
Hours(h) == h * 60

\* datetime.now(timezone.utc).isoformat() at instant t: text with offset +00:00.
IsoFormat(t) == PyStr(IsoText(t, 0))

\* datetime.fromisoformat(v): an aware or naive datetime, or an exception
\* (TypeError for a value that is no str, ValueError for other text).
FromIsoFormat(v) ==
    IF v.t # "str"
    THEN [exc |-> "TypeError", aware |-> FALSE, instant |-> 0]
    ELSE CASE v.s.form = "iso" ->
                [exc |-> "none", aware |-> TRUE, instant |-> v.s.local - v.s.off]
           [] v.s.form = "naive" ->
                [exc |-> "none", aware |-> FALSE, instant |-> v.s.local]
           [] OTHER ->
                [exc |-> "ValueError", aware |-> FALSE, instant |-> 0]

(***************************************************************************)
(* JSON documents, and json.dump / json.load between them and Python       *)
(* values.                                                                 *)
(***************************************************************************)
JNull == [j |-> "null"]
JString(s) == [j |-> "string", s |-> s]
JNumber(n) == [j |-> "number", n |-> n]
JArray(items) == [j |-> "array", items |-> items]
JObject(members) == [j |-> "object", members |-> members]

\* A json.dump that writes None as the text "None".
RECURSIVE JsonDump_NoneAsText(_)
JsonDump_NoneAsText(v) ==
    CASE v.t = "none" -> JString(Plain("None"))
      [] v.t = "str" -> JString(v.s)
      [] v.t = "int" -> JNumber(v.n)
      [] v.t = "list" ->
            JArray([i \in DOMAIN v.items |-> JsonDump_NoneAsText(v.items[i])])
      [] v.t = "dict" ->
            JObject([k \in DOMAIN v.m |-> JsonDump_NoneAsText(v.m[k])])

RECURSIVE JsonDump(_)
JsonDump(v) ==
    CASE v.t = "none" -> JNull
      [] v.t = "str" -> JString(v.s)
      [] v.t = "int" -> JNumber(v.n)
      [] v.t = "list" -> JArray([i \in DOMAIN v.items |-> JsonDump(v.items[i])])
      [] v.t = "dict" -> JObject([k \in DOMAIN v.m |-> JsonDump(v.m[k])])

RECURSIVE JsonLoad(_)
JsonLoad(d) ==
    CASE d.j = "null" -> PyNone
      [] d.j = "string" -> PyStr(d.s)
      [] d.j = "number" -> PyInt(d.n)
      [] d.j = "array" -> PyList([i \in DOMAIN d.items |-> JsonLoad(d.items[i])])
      [] d.j = "object" -> PyDict([k \in DOMAIN d.members |-> JsonLoad(d.members[k])])

(***************************************************************************)
(* The persisted cache file.                                               *)
(***************************************************************************)
FileAbsent == [t |-> "absent"]
FileBad(id) == [t |-> "bad", id |-> id]         \* present, not loadable
FileJson(doc) == [t |-> "json", doc |-> doc]

\* Files a process may find at start-up: none, an unloadable one, and JSON
\* documents that json.load accepts, of the expected shape or not.
InitialFiles ==
    { FileAbsent,
      FileBad(1),
      FileJson(JArray(<<>>)),
      FileJson(JObject([u1 |-> JString(Plain("oops")), u2 |-> JNull])),
      FileJson(JObject(
        [u1 |-> JObject([data |-> JString(Plain("a"))]),
         u2 |-> JObject([timestamp |-> JString(Plain("garbage")),
                         data |-> JString(Plain("a"))])])),
      FileJson(JObject(
        [u1 |-> JObject([timestamp |-> JString(NaiveText(0)),
                         data |-> JString(Plain("a"))]),
         u2 |-> JObject([timestamp |-> JNumber(5),
                         data |-> JString(Plain("a"))])])),
      FileJson(JObject(
        [u1 |-> JObject([timestamp |-> JString(IsoText(60, 60)),
                         data |-> JString(Plain("a"))]),
         u2 |-> JObject([timestamp |-> JString(Plain("")),
                         data |-> JString(Plain("a"))])])) }

(***************************************************************************)
(* class Cacher (CacheTool.py).                                            *)
(***************************************************************************)
VARIABLES
    config_enabled,          \* the "enabled" argument of the running process
    enabled,                 \* Cacher.enabled
    cache_dict,              \* Cacher.cache_dict
    stats,                   \* Cacher.stats
    cache_expiration_hours,  \* Cacher.cache_expiration_hours
    file,                    \* contents of the file cache_file_name
    now,                     \* the UTC clock, in minutes
    steps,                   \* operations so far
    run,                     \* number of the running process
    total_server_calls,      \* Application.stats.total_server_calls
    written,                 \* per key: the completed write the store holds
    saved,                   \* what the last completed save put in the file
    last                     \* the last call: operation, arguments, outcome

(***************************************************************************)
(* class Application (FRED_API.py).                                        *)
(***************************************************************************)
VARIABLES
    CONFIG,                  \* Application.CONFIG["FRED_API"]
    slept,                   \* seconds this process has spent in sleep()
    sent,                    \* the last URL handed to urlopen, and when
    remote,                  \* the hierarchy the remote service publishes
    frames,                  \* the activations of process_category, innermost last
    tree,                    \* the treelib tree: its nodes in creation order
    app_stats,               \* Application.stats (total_categories, total_series)
    outcome                  \* how far main has come

requestVars == <<slept, sent>>
treeVars == <<CONFIG, remote, frames, tree, app_stats, outcome>>

vars == <<config_enabled, enabled, cache_dict, stats, cache_expiration_hours,
          file, now, steps, run, total_server_calls, written, saved, last,
          CONFIG, slept, sent, remote, frames, tree, app_stats, outcome>>

\* CacheStats.__init__
NewStats == [num_hits |-> 0, num_misses |-> 0, num_expired |-> 0, num_invalid |-> 0]
StatsHit(s) == [s EXCEPT !.num_hits = @ + 1]
StatsMiss(s) == [s EXCEPT !.num_misses = @ + 1]
\* An expired() that also counts a miss.
StatsExpired_AlsoMiss(s) == [s EXCEPT !.num_expired = @ + 1, !.num_misses = @ + 1]
StatsExpired(s) == [s EXCEPT !.num_expired = @ + 1]
StatsInvalid(s) == [s EXCEPT !.num_invalid = @ + 1]
NumCounted(s) == s.num_hits + s.num_misses + s.num_expired + s.num_invalid

\* A cache entry as write_cached_data builds it.
CacheEntry(timestamp, data) == PyDict([timestamp |-> timestamp, data |-> data])

\* A load_cache_file that leaves the cache enabled when the file cannot be
\* loaded.
LoadResult_StaysEnabled(en, f) ==
    IF ~en THEN [enabled |-> FALSE, cache_dict |-> EmptyDict]
    ELSE CASE f.t = "absent" -> [enabled |-> TRUE, cache_dict |-> EmptyDict]
           [] f.t = "bad" -> [enabled |-> TRUE, cache_dict |-> EmptyDict]
           [] f.t = "json" -> [enabled |-> TRUE, cache_dict |-> JsonLoad(f.doc)]

\* load_cache_file on a Cacher whose cache_dict is the {} of __init__:
\* the enabled flag and the store it leaves.
LoadResult(en, f) ==
    IF ~en THEN [enabled |-> FALSE, cache_dict |-> EmptyDict]
    ELSE CASE f.t = "absent" -> [enabled |-> TRUE, cache_dict |-> EmptyDict]
           [] f.t = "bad" -> [enabled |-> FALSE, cache_dict |-> EmptyDict]
           [] f.t = "json" -> [enabled |-> TRUE, cache_dict |-> JsonLoad(f.doc)]

\* A save_cache_file without the test of the enabled flag.
SaveResult_IgnoresEnabled(en, cd, f, io) ==
    CASE io = "ok" -> FileJson(JsonDump(cd))
      [] io = "open_fails" -> f
      [] io = "write_fails" -> FileBad(0)

\* save_cache_file: the file it leaves.  io is what the file system does:
\* "ok", "open_fails" (nothing written) or "write_fails" (the file was
\* truncated by open and json.dump did not complete).
SaveResult(en, cd, f, io) ==
    IF ~en THEN f
    ELSE CASE io = "ok" -> FileJson(JsonDump(cd))
           [] io = "open_fails" -> f
           [] io = "write_fails" -> FileBad(0)

\* A read_cached_data that counts an absent key as invalid.
ReadResult_MissAsInvalid(en, cd, st, key, t, ttl) ==
    IF ~en THEN [exc |-> "none", ret |-> PyNone, stats |-> st]
    ELSE IF cd.t # "dict"
    THEN [exc |-> "AttributeError", ret |-> PyNone, stats |-> st]
    ELSE LET cache_entry == DictGet(cd, key) IN
      IF cache_entry = PyNone
      THEN [exc |-> "none", ret |-> PyNone, stats |-> StatsInvalid(st)]
      ELSE IF cache_entry.t # "dict"
      THEN [exc |-> "AttributeError", ret |-> PyNone, stats |-> st]
      ELSE LET timestampStr == DictGet(cache_entry, "timestamp")
               timestampUTC == FromIsoFormat(timestampStr)
           IN IF /\ Truthy(timestampStr)
                 /\ timestampUTC.exc = "none"
                 /\ timestampUTC.aware
              THEN IF t - timestampUTC.instant < Hours(ttl)
                   THEN [exc |-> "none", ret |-> DictGet(cache_entry, "data"),
                         stats |-> StatsHit(st)]
                   ELSE [exc |-> "none", ret |-> PyNone, stats |-> StatsExpired(st)]
              ELSE [exc |-> "none", ret |-> PyNone, stats |-> StatsInvalid(st)]

\* A read_cached_data whose expiry test is "<=": an entry exactly as old as
\* the TTL is still returned.
ReadResult_InclusiveTTL(en, cd, st, key, t, ttl) ==
    IF ~en THEN [exc |-> "none", ret |-> PyNone, stats |-> st]
    ELSE IF cd.t # "dict"
    THEN [exc |-> "AttributeError", ret |-> PyNone, stats |-> st]
    ELSE LET cache_entry == DictGet(cd, key) IN
      IF cache_entry = PyNone
      THEN [exc |-> "none", ret |-> PyNone, stats |-> StatsMiss(st)]
      ELSE IF cache_entry.t # "dict"
      THEN [exc |-> "AttributeError", ret |-> PyNone, stats |-> st]
      ELSE LET timestampStr == DictGet(cache_entry, "timestamp")
               timestampUTC == FromIsoFormat(timestampStr)
           IN IF /\ Truthy(timestampStr)
                 /\ timestampUTC.exc = "none"
                 /\ timestampUTC.aware
              THEN IF t - timestampUTC.instant <= Hours(ttl)
                   THEN [exc |-> "none", ret |-> DictGet(cache_entry, "data"),
                         stats |-> StatsHit(st)]
                   ELSE [exc |-> "none", ret |-> PyNone, stats |-> StatsExpired(st)]
              ELSE [exc |-> "none", ret |-> PyNone, stats |-> StatsInvalid(st)]

\* read_cached_data(key) at clock t: the exception that leaves the call
\* ("none" when it returns), the value returned, and the statistics.
ReadResult(en, cd, st, key, t, ttl) ==
    IF ~en THEN [exc |-> "none", ret |-> PyNone, stats |-> st]
    ELSE IF cd.t # "dict"
    THEN [exc |-> "AttributeError", ret |-> PyNone, stats |-> st]
    ELSE LET cache_entry == DictGet(cd, key) IN
      IF cache_entry = PyNone
      THEN [exc |-> "none", ret |-> PyNone, stats |-> StatsMiss(st)]
      ELSE IF cache_entry.t # "dict"
      THEN [exc |-> "AttributeError", ret |-> PyNone, stats |-> st]
      ELSE LET timestampStr == DictGet(cache_entry, "timestamp")
               timestampUTC == FromIsoFormat(timestampStr)
           IN IF /\ Truthy(timestampStr)
                 /\ timestampUTC.exc = "none"
                 /\ timestampUTC.aware      \* aware - naive raises TypeError
              THEN IF t - timestampUTC.instant < Hours(ttl)
                   THEN [exc |-> "none", ret |-> DictGet(cache_entry, "data"),
                         stats |-> StatsHit(st)]
                   ELSE [exc |-> "none", ret |-> PyNone, stats |-> StatsExpired(st)]
              ELSE [exc |-> "none", ret |-> PyNone, stats |-> StatsInvalid(st)]

\* A write_cached_data that keeps the entry a key already has.
WriteResult_KeepExisting(en, cd, key, data, t) ==
    IF ~en THEN [exc |-> "none", cache_dict |-> cd]
    ELSE IF cd.t # "dict" THEN [exc |-> "TypeError", cache_dict |-> cd]
    ELSE IF key \in DOMAIN cd.m THEN [exc |-> "none", cache_dict |-> cd]
    ELSE [exc |-> "none",
          cache_dict |-> DictSet(cd, key, CacheEntry(IsoFormat(t), data))]

\* write_cached_data(key, data) at clock t: the exception that leaves the
\* call and the store.
WriteResult(en, cd, key, data, t) ==
    IF ~en THEN [exc |-> "none", cache_dict |-> cd]
    ELSE IF cd.t # "dict" THEN [exc |-> "TypeError", cache_dict |-> cd]
    ELSE [exc |-> "none",
          cache_dict |-> DictSet(cd, key, CacheEntry(IsoFormat(t), data))]

(***************************************************************************)
(* The cache as a state machine: a process constructs a Cacher (which      *)
(* loads the file), then calls read, write and save in any order while the *)
(* clock advances; a later process starts from the file the earlier left.  *)
(***************************************************************************)
WriteValues == {PyNone, PyStr(Plain("b"))}
IoOutcomes == {"ok", "open_fails", "write_fails"}

\* What make_api_request can get from the remote service: no response (the
\* call failed and None is returned), an empty body, or a body.
Responses == {PyNone, PyStr(Plain("")), PyStr(Plain("b"))}

\* History: the write whose entry the store holds for a key, and the store
\* and writes a completed save put in the file.
NoWrite == [set |-> FALSE]
Wrote(v, t) == [set |-> TRUE, v |-> v, at |-> t]
NoWrites == [k \in Keys |-> NoWrite]
NotSaved == [set |-> FALSE]
Saved(cd, w) == [set |-> TRUE, dict |-> cd, written |-> w]

Call(op, key, ret, exc) == [op |-> op, key |-> key, ret |-> ret, exc |-> exc]

\* Application.CONFIG["FRED_API"]: the depth below the root to expand, the
\* number of series to show per category, the seconds to pause before a call
\* to the service, and the category to start from.
Config(depth, series, throttle) ==
    [LIMIT_DEPTH |-> depth, LIMIT_SERIES |-> series, THROTTLE |-> throttle,
     ROOT_CATEGORY |-> PyInt(0), BASE_URL |-> "https://fred"]
DefaultConfig == Config(1, 2, 1)
Configs == {Config(0, 2, 1), Config(1, 1, 2), Config(1, 2, 1)}

\* The value of "api_key" in api_key.json, and API_KEY_PARAMETER.
API_KEY == "0123456789abcdef0123456789abcdef"
API_KEY_PARAMETER == <<API_KEY_PARAM_NAME, "=", API_KEY>>

\* A URL is a sequence of pieces of text.  Contains(text, piece): the piece
\* occurs in the text (Python's "in" on str).  Lower: str.lower().
Contains(text, piece) == \E i \in DOMAIN text : text[i] = piece
LowerPiece(piece) == IF piece = "API_KEY" THEN "api_key" ELSE piece
Lower(text) == [i \in DOMAIN text |-> LowerPiece(text[i])]

\* requestURL + "&" + API_KEY_PARAMETER
UrlWithKey(requestURL) ==
    [requestURL |-> requestURL, amp |-> "&", parameter |-> API_KEY_PARAMETER]

\* A make_api_request that does not sleep.
ApiRequestResult_NoSleep(calls, sl, throttle, requestURL, response) ==
    [total_server_calls |-> calls + 1,
     slept |-> sl,
     urlWithKey |-> UrlWithKey(requestURL),
     ret |-> response]

\* make_api_request(requestURL), the service answering with response (None
\* when urlopen or read raises): the call counter, the seconds slept, the URL
\* handed to urlopen and the value returned.
ApiRequestResult(calls, sl, throttle, requestURL, response) ==
    [total_server_calls |-> calls + 1,
     slept |-> sl + throttle,
     urlWithKey |-> UrlWithKey(requestURL),
     ret |-> response]

\* Application.AppStats.__init__ (total_server_calls is a variable of its own)
NewAppStats == [total_categories |-> 0, total_series |-> 0]

\* main: not begun; inside process_category; process_category returned ret;
\* an exception left process_category; exit(code) was called.
Idle == [state |-> "idle"]
Running == [state |-> "running"]
Returned(ret) == [state |-> "returned", ret |-> ret]
Raised(exc) == [state |-> "raised", exc |-> exc]
Exited(code) == [state |-> "exited", code |-> code]

\* No remote hierarchy: the service is reached through make_caching_request
\* alone.
NoRemote == [name |-> "none"]

\* The last URL handed to urlopen by this process, the seconds the process
\* had slept by then, and the number of URLs handed to urlopen so far.
NotSent == [set |-> FALSE, n |-> 0]
Sent(url, at, n) == [set |-> TRUE, url |-> url, at |-> at, n |-> n]

\* Cacher.__init__ in a process configured with en, the file being f.
Constructed(en, f) ==
    /\ config_enabled' = en
    /\ enabled' = LoadResult(en, f).enabled
    /\ cache_dict' = LoadResult(en, f).cache_dict
    /\ stats' = NewStats
    /\ total_server_calls' = 0
    /\ written' = IF en /\ f.t = "json" /\ saved.set THEN saved.written ELSE NoWrites

\* Every operation is one step of the bounded behaviour.
Step == steps < MaxSteps /\ steps' = steps + 1

Init ==
    /\ config_enabled \in BOOLEAN
    /\ file \in InitialFiles
    /\ cache_expiration_hours = DEFAULT_CACHE_EXPIRATION
    /\ enabled = LoadResult(config_enabled, file).enabled
    /\ cache_dict = LoadResult(config_enabled, file).cache_dict
    /\ stats = NewStats
    /\ total_server_calls = 0
    /\ written = NoWrites
    /\ saved = NotSaved
    /\ now = 0
    /\ steps = 0
    /\ run = 1
    /\ last = [op |-> "init", key |-> "", ret |-> PyNone, exc |-> "none"]
    /\ CONFIG = DefaultConfig
    /\ slept = 0
    /\ sent = NotSent
    /\ remote = NoRemote
    /\ frames = <<>>
    /\ tree = <<>>
    /\ app_stats = NewAppStats
    /\ outcome = Idle

\* A new process: CacheTool.initialize constructs a fresh Cacher.
initialize(en) ==
    /\ Step
    /\ run' = run + 1
    /\ Constructed(en, file)
    /\ last' = Call("init", "", PyNone, "none")
    /\ slept' = 0
    /\ sent' = NotSent
    /\ UNCHANGED <<cache_expiration_hours, file, now, saved>>
    /\ UNCHANGED treeVars

read_cached_data(key) ==
    LET r == ReadResult(enabled, cache_dict, stats, key, now, cache_expiration_hours)
    IN /\ Step
       /\ stats' = r.stats
       /\ last' = Call("read", key, r.ret, r.exc)
       /\ UNCHANGED <<config_enabled, enabled, cache_dict, cache_expiration_hours,
                      file, now, run, total_server_calls, written, saved>>
       /\ UNCHANGED <<requestVars, treeVars>>

write_cached_data(key, data) ==
    LET w == WriteResult(enabled, cache_dict, key, data, now)
    IN /\ Step
       /\ cache_dict' = w.cache_dict
       /\ written' = IF enabled /\ w.exc = "none"
                     THEN [written EXCEPT ![key] = Wrote(data, now)]
                     ELSE written
       /\ last' = Call("write", key, PyNone, w.exc)
       /\ UNCHANGED <<config_enabled, enabled, stats, cache_expiration_hours,
                      file, now, run, total_server_calls, saved>>
       /\ UNCHANGED <<requestVars, treeVars>>

save_cache_file(io) ==
    /\ Step
    /\ file' = SaveResult(enabled, cache_dict, file, io)
    /\ saved' = IF ~enabled \/ io = "open_fails" THEN saved
                ELSE IF io = "ok" THEN Saved(cache_dict, written) ELSE NotSaved
    /\ last' = Call("save", "", PyNone, "none")
    /\ UNCHANGED <<config_enabled, enabled, cache_dict, stats,
                   cache_expiration_hours, now, run, total_server_calls, written>>
    /\ UNCHANGED <<requestVars, treeVars>>

\* The clock advances.
Tick(d) ==
    /\ Step
    /\ now' = now + d
    /\ last' = Call("tick", "", PyNone, "none")
    /\ UNCHANGED <<config_enabled, enabled, cache_dict, stats,
                   cache_expiration_hours, file, run, total_server_calls, written,
                   saved>>
    /\ UNCHANGED <<requestVars, treeVars>>

\* A make_caching_request that returns the live response without storing it.
CachingRequestResult_NoWriteBack(en, cd, st, requestURL, t, ttl, response) ==
    LET r == ReadResult(en, cd, st, requestURL, t, ttl)
    IN IF r.exc # "none"
       THEN [exc |-> r.exc, ret |-> PyNone, live |-> FALSE,
             cache_dict |-> cd, stats |-> r.stats]
       ELSE IF ~Truthy(r.ret)
       THEN [exc |-> "none", ret |-> response, live |-> TRUE,
             cache_dict |-> cd, stats |-> r.stats]
       ELSE [exc |-> "none", ret |-> r.ret, live |-> FALSE,
             cache_dict |-> cd, stats |-> r.stats]

(***************************************************************************)
(* The caching request layer (FRED_API.py).                                *)
(***************************************************************************)
\* make_caching_request(requestURL) at clock t, the remote service answering
\* a live call with response: the exception that leaves the call, the value
\* returned, whether make_api_request ran, and the cache afterwards.
CachingRequestResult(en, cd, st, requestURL, t, ttl, response) ==
    LET r == ReadResult(en, cd, st, requestURL, t, ttl)
        w == WriteResult(en, cd, requestURL, response, t)
    IN IF r.exc # "none"
       THEN [exc |-> r.exc, ret |-> PyNone, live |-> FALSE,
             cache_dict |-> cd, stats |-> r.stats]
       ELSE IF ~Truthy(r.ret)
       THEN [exc |-> w.exc, ret |-> response, live |-> TRUE,
             cache_dict |-> w.cache_dict, stats |-> r.stats]
       ELSE [exc |-> "none", ret |-> r.ret, live |-> FALSE,
             cache_dict |-> cd, stats |-> r.stats]

make_caching_request(requestURL, response) ==
    LET q == CachingRequestResult(enabled, cache_dict, stats, requestURL, now,
                                   cache_expiration_hours, response)
        a == ApiRequestResult(total_server_calls, slept, CONFIG.THROTTLE,
                              requestURL, response)
    IN /\ Step
       /\ stats' = q.stats
       /\ cache_dict' = q.cache_dict
       /\ total_server_calls' = IF q.live THEN a.total_server_calls
                                ELSE total_server_calls
       /\ slept' = IF q.live THEN a.slept ELSE slept
       /\ sent' = IF q.live THEN Sent(a.urlWithKey, a.slept, sent.n + 1) ELSE sent
       /\ written' = IF q.live /\ enabled /\ q.exc = "none"
                     THEN [written EXCEPT ![requestURL] = Wrote(response, now)]
                     ELSE written
       /\ last' = Call("request", requestURL, q.ret, q.exc)
       /\ UNCHANGED <<config_enabled, enabled, cache_expiration_hours, file, now,
                      run, saved>>
       /\ UNCHANGED treeVars

Next ==
    \/ \E en \in BOOLEAN : initialize(en)
    \/ \E key \in Keys : read_cached_data(key)
    \/ \E key \in Keys, data \in WriteValues : write_cached_data(key, data)
    \/ \E io \in IoOutcomes : save_cache_file(io)
    \/ \E d \in TickSteps : Tick(d)

\* The cache under any order of calls.
Spec == Init /\ [][Next]_vars

NextApp ==
    \/ \E en \in BOOLEAN : initialize(en)
    \/ \E url \in Keys, response \in Responses : make_caching_request(url, response)
    \/ \E io \in IoOutcomes : save_cache_file(io)
    \/ \E d \in TickSteps : Tick(d)

\* The cache as the application uses it: through the caching request layer.
SpecApp == Init /\ [][NextApp]_vars

(***************************************************************************)
(* The remote service.  A response body is text: JSON text, or text that   *)
(* json.loads rejects.                                                     *)
(***************************************************************************)
JsonText(doc) == [form |-> "json", doc |-> doc]
Body(doc) == PyStr(JsonText(doc))

\* json.loads(data): the exception it raises, or the value it returns.
JsonLoads(data) ==
    IF data.t # "str" THEN [exc |-> "TypeError", ret |-> PyNone]
    ELSE IF data.s.form # "json" THEN [exc |-> "JSONDecodeError", ret |-> PyNone]
    ELSE [exc |-> "none", ret |-> JsonLoad(data.s.doc)]

\* str(value), for the values an "id" or "name" can have.
Str(v) ==
    CASE v.t = "int" -> ToString(v.n)
      [] v.t = "str" /\ v.s.form = "plain" -> v.s.chars
      [] v.t = "none" -> "None"
      [] OTHER -> "<repr>"

\* Items of the FRED responses category/children and category/series.
Cat(id, name) == JObject([id |-> id, name |-> JString(Plain(name))])
Categories(items) == Body(JObject([categories |-> JArray(items)]))
Series(id, title) ==
    JObject([id |-> JString(Plain(id)), title |-> JString(Plain(title))])
SeriesWithNotes(id, title) ==
    JObject([id |-> JString(Plain(id)), title |-> JString(Plain(title)),
             notes |-> JString(Plain("notes")),
             frequency |-> JString(Plain("Monthly"))])
Seriess(count, items) ==
    Body(JObject([count |-> JNumber(count), seriess |-> JArray(items)]))
ErrorPayload == Body(JObject([error_code |-> JNumber(400)]))
Undecodable == PyStr(Plain("<html>"))

\* Remote hierarchies.  Each gives, per category id, the body the service
\* sends for category/children and for category/series; for any other id the
\* service sends its error payload.
\*   two_levels: a root with two children that have one child each.
\*   broken: bodies that are no JSON, JSON that is no mapping, items that lack
\*     a field, totals that disagree with the items sent.
\*   looped: category ids that occur more than once.
\*   hostile: category ids that hold the value and the name of the credential
\*     parameter.
\*   echo: a category id that holds the value of the credential.
TwoLevels ==
    [name |-> "two_levels",
     children |->
        [c \in {"0", "1", "2"} |->
            CASE c = "0" -> Categories(<<Cat(JNumber(1), "a"), Cat(JNumber(2), "b")>>)
              [] c = "1" -> Categories(<<Cat(JNumber(3), "c")>>)
              [] c = "2" -> Categories(<<Cat(JNumber(4), "d")>>)],
     series |->
        [c \in {"0", "1", "2"} |->
            CASE c = "0" -> Seriess(0, <<>>)
              [] c = "1" -> Seriess(5, <<SeriesWithNotes("s1", "x"), Series("s2", "y")>>)
              [] c = "2" -> Seriess(1, <<Series("s1", "x")>>)]]
Broken ==
    [name |-> "broken",
     children |->
        [c \in {"0", "1", "2"} |->
            CASE c = "0" -> Categories(<<Cat(JNumber(1), "a"), Cat(JNumber(2), "b")>>)
              [] c = "1" -> Body(JArray(<<>>))
              [] c = "2" -> Categories(<<JObject([id |-> JNumber(5)])>>)],
     series |->
        [c \in {"0", "1", "2"} |->
            CASE c = "0" -> Seriess(2, <<>>)
              [] c = "1" -> Undecodable
              [] c = "2" -> Seriess(0, <<Series("s1", "x"),
                                         JObject([id |-> JString(Plain("s2"))])>>)]]
Looped ==
    [name |-> "looped",
     children |->
        [c \in {"0", "1", "2"} |->
            CASE c = "0" -> Categories(<<Cat(JNumber(1), "a"), Cat(JNumber(2), "b")>>)
              [] c = "1" -> Categories(<<Cat(JNumber(3), "c")>>)
              [] c = "2" -> Categories(<<Cat(JNumber(3), "c")>>)],
     series |->
        [c \in {"0", "1", "2"} |->
            CASE c = "0" -> Body(JNull)
              [] c = "1" -> Seriess(2, <<Series("s1", "x"), Series("s1", "x")>>)
              [] c = "2" -> Seriess(3, <<JObject([id |-> JString(Plain("s2"))])>>)]]
Hostile ==
    [name |-> "hostile",
     children |->
        [c \in {"0"} |->
            Categories(<<Cat(JString(Plain(API_KEY)), "a"),
                         Cat(JString(Plain("API_KEY")), "b")>>)],
     series |-> [c \in {"0"} |-> ErrorPayload]]
Echo ==
    [name |-> "echo",
     children |->
        [c \in {"0"} |-> Categories(<<Cat(JString(Plain(API_KEY)), "a")>>)],
     series |-> [c \in {"0"} |-> ErrorPayload]]
Remotes == {TwoLevels, Broken, Looped, Hostile, Echo}

\* The body the hierarchy sends for the URL of a live call.
RemoteResponse(world, url) ==
    LET kind == IF url[3] = "category/children?category_id=" THEN "children"
                ELSE "series"
        c == url[4]
    IN IF c \in DOMAIN world[kind] THEN world[kind][c] ELSE ErrorPayload

(***************************************************************************)
(* treelib.  The tree is the sequence of its nodes in creation order; a    *)
(* node has an identifier, a tag (its label: a sequence of parts) and the  *)
(* identifier of its parent.  Identifiers are sequences of pieces of text. *)
(***************************************************************************)
NoParent == <<>>
Node(tag, identifier, parent) ==
    [identifier |-> identifier, tag |-> tag, parent |-> parent]
NodeIds(t) == {t[i].identifier : i \in DOMAIN t}

\* The identifier treelib gives a node created without one (a fresh uuid).
AutoId(t) == <<"uuid", ToString(Len(t) + 1)>>

\* A create_node that appends the node without any test.
CreateNode_NoChecks(t, tag, identifier, parent) ==
    [exc |-> "none", tree |-> Append(t, Node(tag, identifier, parent))]

\* Tree.create_node(tag, identifier, parent = parent)
CreateNode(t, tag, identifier, parent) ==
    IF identifier \in NodeIds(t)
    THEN [exc |-> "DuplicatedNodeIdError", tree |-> t]
    ELSE IF parent = NoParent /\ t # <<>>
    THEN [exc |-> "MultipleRootError", tree |-> t]
    ELSE IF parent # NoParent /\ parent \notin NodeIds(t)
    THEN [exc |-> "NodeIDAbsentError", tree |-> t]
    ELSE [exc |-> "none", tree |-> Append(t, Node(tag, identifier, parent))]

\* Tree.get_node(identifier): the position of the node, 0 for None.
GetNode(t, identifier) ==
    IF identifier \in NodeIds(t)
    THEN CHOOSE i \in DOMAIN t : t[i].identifier = identifier
    ELSE 0

\* Application.initialize_tree
InitialTree(cfg) ==
    CreateNode(<<>>, <<[part |-> "title", base_url |-> cfg.BASE_URL]>>,
               <<Str(cfg.ROOT_CATEGORY)>>, NoParent).tree

(***************************************************************************)
(* get_rest_data and the two requests of a category.                       *)
(***************************************************************************)
ChildrenPath(parentCategoryID) ==
    <<"category/children?category_id=", Str(parentCategoryID)>>
SeriesPath(parentCategoryID, cfg) ==
    <<"category/series?category_id=", Str(parentCategoryID),
      "&limit=", ToString(cfg.LIMIT_SERIES)>>
FullURL(cfg, rest_path) == <<cfg.BASE_URL, "/">> \o rest_path \o <<"&file_type=json">>

\* A get_rest_data that lets an exception of the request or of the decoding
\* through to its caller.
RestDataResult_NoFallback(q, rest_path) ==
    LET d == JsonLoads(q.ret)
    IN IF Contains(Lower(rest_path), API_KEY_PARAM_NAME)
       THEN [exit |-> TRUE, exc |-> "none", ret |-> PyNone]
       ELSE IF q.exc # "none"
       THEN [exit |-> FALSE, exc |-> q.exc, ret |-> PyNone]
       ELSE IF d.exc # "none"
       THEN [exit |-> FALSE, exc |-> d.exc, ret |-> PyNone]
       ELSE [exit |-> FALSE, exc |-> "none", ret |-> d.ret]

\* get_rest_data(rest_path), q being what make_caching_request does for the
\* full URL: whether exit(-999) is called, the exception that leaves the call
\* (none: whatever is raised inside is caught), and the value returned.
RestDataResult(q, rest_path) ==
    LET d == JsonLoads(q.ret)
    IN IF Contains(Lower(rest_path), API_KEY_PARAM_NAME)
       THEN [exit |-> TRUE, exc |-> "none", ret |-> PyNone]
       ELSE IF q.exc # "none"
       THEN [exit |-> FALSE, exc |-> "none", ret |-> EmptyDict]
       ELSE IF d.exc # "none"
       THEN [exit |-> FALSE, exc |-> "none", ret |-> EmptyDict]
       ELSE [exit |-> FALSE, exc |-> "none", ret |-> d.ret]

(***************************************************************************)
(* process_series and process_children_series.                             *)
(***************************************************************************)
\* reformat_date_string: the date in display format, or the argument itself
\* when no format parses it (plain text never parses).
ReformatDate(v) ==
    IF v.t = "str" /\ v.s.form # "plain" THEN [display |-> v] ELSE [original |-> v]

\* The attributes process_series lists for a series, in order.
SeriesAttributes(series) ==
    LET frequency == DictGet(series, "frequency")
        seasonal == DictGet(series, "seasonal_adjustment")
        short == DictGet(series, "seasonal_adjustment_short")
        last_updated == DictGet(series, "last_updated")
        observation_start == DictGet(series, "observation_start")
        observation_end == DictGet(series, "observation_end")
    IN (IF Truthy(frequency) THEN <<[part |-> "frequency", v |-> frequency]>>
        ELSE <<>>)
       \o (IF Truthy(seasonal) /\ short = PyStr(Plain("SA"))
           THEN <<[part |-> "seasonal", v |-> seasonal]>> ELSE <<>>)
       \o (IF Truthy(last_updated)
           THEN <<[part |-> "updated", v |-> ReformatDate(last_updated)]>>
           ELSE <<>>)
       \o (IF Truthy(observation_start) /\ Truthy(observation_end)
           THEN <<[part |-> "observations",
                   from |-> ReformatDate(observation_start),
                   to |-> ReformatDate(observation_end)]>>
           ELSE <<>>)

\* The node of the attributes: "; ".join(attributes) raises unless every
\* listed attribute is text.
AttributesNode(attributes, nodeIdentifier, t) ==
    IF attributes = <<>> THEN [exc |-> "none", tree |-> t]
    ELSE IF \E i \in DOMAIN attributes :
               /\ attributes[i].part \in {"frequency", "seasonal"}
               /\ attributes[i].v.t # "str"
    THEN [exc |-> "TypeError", tree |-> t]
    ELSE CreateNode(t, attributes, AutoId(t), nodeIdentifier)

\* The node of the notes, when the series has notes, then the attributes.
NotesNode(notes, series, nodeIdentifier, t) ==
    IF ~Truthy(notes)
    THEN AttributesNode(SeriesAttributes(series), nodeIdentifier, t)
    ELSE IF notes.t # "str" THEN [exc |-> "TypeError", tree |-> t]
    ELSE AttributesNode(SeriesAttributes(series), nodeIdentifier,
                        Append(t, Node(<<[part |-> "notes", v |-> notes]>>,
                                       AutoId(t), nodeIdentifier)))

\* What follows the creation of the header node of a series.
BelowHeader(header, series, nodeIdentifier) ==
    IF header.exc # "none" THEN header
    ELSE NotesNode(DictGet(series, "notes"), series, nodeIdentifier, header.tree)

\* process_series(series, categoryID, tree): the exception that leaves it and
\* the tree it leaves.
ProcessSeries(series, categoryID, t) ==
    IF series.t # "dict" THEN [exc |-> "TypeError", tree |-> t]
    ELSE IF {"title", "id"} \ DOMAIN series.m # {} THEN [exc |-> "KeyError", tree |-> t]
    ELSE BelowHeader(CreateNode(t, <<[part |-> "series", id |-> Str(series.m.id),
                                      title |-> Str(series.m.title)]>>,
                                <<Str(categoryID), "/", Str(series.m.id)>>,
                                <<Str(categoryID)>>),
                     series, <<Str(categoryID), "/", Str(series.m.id)>>)

\* The loop of process_children_series over the series it shows: the
\* exception that ends it, the tree, and the number of series processed.
OneMore(rest) == [rest EXCEPT !.done = @ + 1]
RECURSIVE ProcessSeriesList(_, _, _)
AfterSeries(first, items, categoryID) ==
    IF first.exc # "none" THEN [exc |-> first.exc, tree |-> first.tree, done |-> 0]
    ELSE OneMore(ProcessSeriesList(items, categoryID, first.tree))
ProcessSeriesList(items, categoryID, t) ==
    IF items = <<>> THEN [exc |-> "none", tree |-> t, done |-> 0]
    ELSE AfterSeries(ProcessSeries(Head(items), categoryID, t), Tail(items),
                     categoryID)

\* seriess[ : limit]
Slice(items, limit) ==
    SubSeq(items, 1, IF Len(items) < limit THEN Len(items) ELSE limit)

\* What process_children_series leaves and returns.
SeriesResult(exc, t, st, n) ==
    [exc |-> exc, tree |-> t, app_stats |-> st,
     num_series |-> n, num_descendent_series |-> n]

\* A process_children_series that returns the number of series it shows
\* instead of the total the service reports.
AfterShown_CountsShown(shown, num_series, categoryID, st) ==
    IF shown.exc # "none" THEN SeriesResult(shown.exc, shown.tree, st, 0)
    ELSE IF num_series - shown.done > 0
    THEN SeriesResult("none",
                      Append(shown.tree,
                             Node(<<[part |-> "plus", n |-> num_series - shown.done]>>,
                                  AutoId(shown.tree), <<Str(categoryID)>>)),
                      st, shown.done)
    ELSE SeriesResult("none", shown.tree, st, shown.done)

\* process_children_series after its loop: the "plus N additional series"
\* node when the service reports more series than were shown.
AfterShown(shown, num_series, categoryID, st) ==
    IF shown.exc # "none" THEN SeriesResult(shown.exc, shown.tree, st, 0)
    ELSE IF num_series - shown.done > 0
    THEN SeriesResult("none",
                      Append(shown.tree,
                             Node(<<[part |-> "plus", n |-> num_series - shown.done]>>,
                                  AutoId(shown.tree), <<Str(categoryID)>>)),
                      st, num_series)
    ELSE SeriesResult("none", shown.tree, st, num_series)

\* A process_children_series that leaves the statistics alone.
CountedSeries_NoStats(num_series, seriess, categoryID, t, st, cfg) ==
    IF ~(Truthy(num_series) /\ Truthy(seriess)) THEN SeriesResult("none", t, st, 0)
    ELSE IF num_series.t # "int" \/ seriess.t # "list"
    THEN SeriesResult("TypeError", t, st, 0)
    ELSE AfterShown(ProcessSeriesList(Slice(seriess.items, cfg.LIMIT_SERIES),
                                      categoryID, t),
                    num_series.n, categoryID, st)

\* process_children_series once "count" and "seriess" are read.
CountedSeries(num_series, seriess, categoryID, t, st, cfg) ==
    IF ~(Truthy(num_series) /\ Truthy(seriess)) THEN SeriesResult("none", t, st, 0)
    ELSE IF num_series.t # "int" \/ seriess.t # "list"
    THEN SeriesResult("TypeError", t, st, 0)
    ELSE AfterShown(ProcessSeriesList(Slice(seriess.items, cfg.LIMIT_SERIES),
                                      categoryID, t),
                    num_series.n, categoryID,
                    [st EXCEPT !.total_series = @ + num_series.n])

\* process_children_series(children_series, categoryID, tree): the exception
\* that leaves it, the tree and statistics it leaves, and the pair it returns.
ProcessChildrenSeries(children_series, categoryID, t, st, cfg) ==
    IF children_series.t # "dict" THEN SeriesResult("AttributeError", t, st, 0)
    ELSE CountedSeries(DictGet(children_series, "count"),
                       DictGet(children_series, "seriess"), categoryID, t, st, cfg)

(***************************************************************************)
(* process_category and main.  An activation of process_category is a      *)
(* frame: its arguments, its local variables and the place it has reached  *)
(* ("enter": the depth test; "series", "children": the two requests;       *)
(* "child": the loop over the child categories; "label": the annotation).  *)
(***************************************************************************)
Frame(depth, categoryDict) ==
    [depth |-> depth, categoryDict |-> categoryDict, pc |-> "enter",
     num_series |-> 0, num_descendent_series |-> 0,
     num_categories |-> 0, num_descendent_categories |-> 0,
     categories |-> <<>>, i |-> 1]

Top == frames[Len(frames)]
At(pc) == outcome = Running /\ frames # <<>> /\ Top.pc = pc
SetTop(f) == [frames EXCEPT ![Len(frames)] = f]
CategoryID(f) == f.categoryDict.m.id

\* rootCategoryDict of main
RootCategoryDict(cfg) ==
    PyDict([name |-> PyStr(Plain("<root>")), id |-> cfg.ROOT_CATEGORY])

\* A return that leaves the counts of the caller as they are.
ReturnToCaller_DropsCounts(ret) ==
    IF Len(frames) = 1
    THEN /\ frames' = <<>>
         /\ outcome' = Returned(ret)
    ELSE /\ frames' = [SubSeq(frames, 1, Len(frames) - 1)
                         EXCEPT ![Len(frames) - 1].i = @ + 1]
         /\ outcome' = outcome

\* A return after which the caller counts the returning category once more.
ReturnToCaller_CountsItself(ret) ==
    IF Len(frames) = 1
    THEN /\ frames' = <<>>
         /\ outcome' = Returned(ret)
    ELSE LET caller == frames[Len(frames) - 1]
         IN /\ frames' = [SubSeq(frames, 1, Len(frames) - 1)
                            EXCEPT ![Len(frames) - 1] =
                               [caller EXCEPT
                                  !.num_descendent_categories = @ + ret[1] + 1,
                                  !.num_descendent_series = @ + ret[2],
                                  !.i = @ + 1]]
            /\ outcome' = outcome

\* The top frame returns ret to its caller: the caller adds the pair to its
\* counts and goes on with its next child; the root call returns to main.
ReturnToCaller(ret) ==
    IF Len(frames) = 1
    THEN /\ frames' = <<>>
         /\ outcome' = Returned(ret)
    ELSE LET caller == frames[Len(frames) - 1]
         IN /\ frames' = [SubSeq(frames, 1, Len(frames) - 1)
                            EXCEPT ![Len(frames) - 1] =
                               [caller EXCEPT
                                  !.num_descendent_categories = @ + ret[1],
                                  !.num_descendent_series = @ + ret[2],
                                  !.i = @ + 1]]
            /\ outcome' = outcome

\* What a request of the top frame for rest_path does: the full URL, the
\* response a live call gets (None when the call fails), make_caching_request,
\* make_api_request and get_rest_data.
Request(rest_path, fails) ==
    LET url == FullURL(CONFIG, rest_path)
        response == IF fails THEN PyNone ELSE RemoteResponse(remote, url)
        q == CachingRequestResult(enabled, cache_dict, stats, url, now,
                                  cache_expiration_hours, response)
    IN [url |-> url, response |-> response, q |-> q,
        a |-> ApiRequestResult(total_server_calls, slept, CONFIG.THROTTLE,
                               url, response),
        r |-> RestDataResult(q, rest_path)]

RestCall(kind, categoryID, x) ==
    [op |-> "rest", kind |-> kind, category |-> Str(categoryID), key |-> x.url,
     live |-> x.q.live, response |-> x.response, caught |-> x.q.exc,
     exc |-> x.r.exc, ret |-> x.r.ret]

\* The changes get_rest_data makes to the cache and to the request layer.
Requested(kind, categoryID, x) ==
    /\ stats' = x.q.stats
    /\ cache_dict' = x.q.cache_dict
    /\ total_server_calls' = IF x.q.live THEN x.a.total_server_calls
                             ELSE total_server_calls
    /\ slept' = IF x.q.live THEN x.a.slept ELSE slept
    /\ sent' = IF x.q.live THEN Sent(x.a.urlWithKey, x.a.slept, sent.n + 1)
               ELSE sent
    /\ last' = RestCall(kind, categoryID, x)

\* get_rest_data finds the credential parameter in rest_path: exit(-999).
Aborted ==
    /\ outcome' = Exited(-999)
    /\ UNCHANGED <<stats, cache_dict, total_server_calls, slept, sent, last,
                   frames, tree, app_stats>>

cacheFrame == <<config_enabled, enabled, cache_expiration_hours, file, now,
                steps, run, written, saved>>

\* main: the traversal begins at the root category, depth 0.
main_begin ==
    /\ outcome = Idle
    /\ outcome' = Running
    /\ frames' = <<Frame(0, RootCategoryDict(CONFIG))>>
    /\ UNCHANGED <<cacheFrame, cache_dict, stats, total_server_calls, last,
                   CONFIG, remote, slept, sent, tree, app_stats>>

\* The depth test of process_category.
TooDeep_Never(f, cfg) == FALSE
TooDeep(f, cfg) == f.depth > cfg.LIMIT_DEPTH

\* process_category up to the first request: the depth test and the reading
\* of the id and name of the category.
process_category_enter ==
    /\ At("enter")
    /\ IF TooDeep(Top, CONFIG)
       THEN ReturnToCaller(<<0, 0>>)
       ELSE IF Top.categoryDict.t # "dict"
       THEN outcome' = Raised("TypeError") /\ frames' = frames
       ELSE IF {"id", "name"} \ DOMAIN Top.categoryDict.m # {}
       THEN outcome' = Raised("KeyError") /\ frames' = frames
       ELSE outcome' = outcome /\ frames' = SetTop([Top EXCEPT !.pc = "series"])
    /\ UNCHANGED <<cacheFrame, cache_dict, stats, total_server_calls, last,
                   CONFIG, remote, slept, sent, tree, app_stats>>

\* get_children_series and process_children_series of the top frame.
get_children_series(fails) ==
    /\ At("series")
    /\ \E x \in {Request(SeriesPath(CategoryID(Top), CONFIG), fails)} :
          IF x.r.exit THEN Aborted
          ELSE \E p \in {ProcessChildrenSeries(x.r.ret, CategoryID(Top), tree,
                                               app_stats, CONFIG)} :
                  /\ Requested("series", CategoryID(Top), x)
                  /\ tree' = p.tree
                  /\ app_stats' = p.app_stats
                  /\ IF p.exc # "none"
                     THEN outcome' = Raised(p.exc) /\ frames' = frames
                     ELSE /\ outcome' = outcome
                          /\ frames' = SetTop([Top EXCEPT
                                !.pc = "children",
                                !.num_series = p.num_series,
                                !.num_descendent_series = p.num_descendent_series])
    /\ UNCHANGED <<cacheFrame, CONFIG, remote>>

\* get_child_categories of the top frame and the counting of the categories
\* it lists.
get_child_categories(fails) ==
    /\ At("children")
    /\ \E x \in {Request(ChildrenPath(CategoryID(Top)), fails)} :
       LET children_categories == x.r.ret
           categories == DictGet(children_categories, "categories")
       IN IF x.r.exit THEN Aborted
          ELSE /\ Requested("children", CategoryID(Top), x)
               /\ tree' = tree
               /\ IF children_categories.t # "dict"
                  THEN /\ outcome' = Raised("AttributeError")
                       /\ frames' = frames
                       /\ app_stats' = app_stats
                  ELSE IF ~Truthy(categories)
                  THEN /\ outcome' = outcome
                       /\ frames' = SetTop([Top EXCEPT !.pc = "label"])
                       /\ app_stats' = app_stats
                  ELSE IF categories.t # "list"
                  THEN /\ outcome' = Raised("TypeError")
                       /\ frames' = frames
                       /\ app_stats' = app_stats
                  ELSE /\ outcome' = outcome
                       /\ frames' = SetTop([Top EXCEPT
                             !.pc = "child",
                             !.num_categories = Len(categories.items),
                             !.num_descendent_categories = Len(categories.items),
                             !.categories = categories.items,
                             !.i = 1])
                       /\ app_stats' = [app_stats EXCEPT
                             !.total_categories = @ + Len(categories.items)]
    /\ UNCHANGED <<cacheFrame, CONFIG, remote>>

\* A loop over the child categories that takes them last to first.
process_category_child_Reversed ==
    /\ At("child")
    /\ Top.i <= Len(Top.categories)
    /\ LET subdict == Top.categories[Len(Top.categories) + 1 - Top.i]
           made == CreateNode(tree,
                              <<[part |-> "category", id |-> Str(subdict.m.id),
                                 name |-> Str(subdict.m.name)]>>,
                              <<Str(subdict.m.id)>>, <<Str(CategoryID(Top))>>)
       IN IF subdict.t # "dict"
          THEN outcome' = Raised("TypeError") /\ frames' = frames /\ tree' = tree
          ELSE IF {"id", "name"} \ DOMAIN subdict.m # {}
          THEN outcome' = Raised("KeyError") /\ frames' = frames /\ tree' = tree
          ELSE IF made.exc # "none"
          THEN outcome' = Raised(made.exc) /\ frames' = frames /\ tree' = tree
          ELSE /\ outcome' = outcome
               /\ frames' = Append(frames, Frame(Top.depth + 1, subdict))
               /\ tree' = made.tree
    /\ UNCHANGED <<cacheFrame, cache_dict, stats, total_server_calls, last,
                   CONFIG, remote, slept, sent, app_stats>>

\* One turn of the loop over the child categories: the node of the child is
\* created and process_category is called on it, one level deeper.
process_category_child ==
    /\ At("child")
    /\ Top.i <= Len(Top.categories)
    /\ LET subdict == Top.categories[Top.i]
           made == CreateNode(tree,
                              <<[part |-> "category", id |-> Str(subdict.m.id),
                                 name |-> Str(subdict.m.name)]>>,
                              <<Str(subdict.m.id)>>, <<Str(CategoryID(Top))>>)
       IN IF subdict.t # "dict"
          THEN outcome' = Raised("TypeError") /\ frames' = frames /\ tree' = tree
          ELSE IF {"id", "name"} \ DOMAIN subdict.m # {}
          THEN outcome' = Raised("KeyError") /\ frames' = frames /\ tree' = tree
          ELSE IF made.exc # "none"
          THEN outcome' = Raised(made.exc) /\ frames' = frames /\ tree' = tree
          ELSE /\ outcome' = outcome
               /\ frames' = Append(frames, Frame(Top.depth + 1, subdict))
               /\ tree' = made.tree
    /\ UNCHANGED <<cacheFrame, cache_dict, stats, total_server_calls, last,
                   CONFIG, remote, slept, sent, app_stats>>

\* An annotation that lists both pairs of counts whenever one of them is not
\* zero.
Annotation_Both(f) ==
    IF f.num_categories > 0 \/ f.num_descendent_categories > 0
          \/ f.num_series > 0 \/ f.num_descendent_series > 0
    THEN <<[part |-> "contains_categories", direct |-> f.num_categories,
            descendent |-> f.num_descendent_categories],
           [part |-> "contains_series", direct |-> f.num_series,
            descendent |-> f.num_descendent_series]>>
    ELSE <<>>

\* The text process_category appends to the label of the category.
Annotation(f) ==
    (IF f.num_categories > 0 \/ f.num_descendent_categories > 0
     THEN <<[part |-> "contains_categories", direct |-> f.num_categories,
             descendent |-> f.num_descendent_categories]>>
     ELSE <<>>)
    \o (IF f.num_series > 0 \/ f.num_descendent_series > 0
        THEN <<[part |-> "contains_series", direct |-> f.num_series,
                descendent |-> f.num_descendent_series]>>
        ELSE <<>>)

\* The end of process_category: the label of the category node gets the
\* counts, and the pair of descendant counts is returned.
process_category_return ==
    /\ At("label") \/ (At("child") /\ Top.i > Len(Top.categories))
    /\ LET cat_node == GetNode(tree, <<Str(CategoryID(Top))>>)
       IN IF Annotation(Top) = <<>>
          THEN /\ tree' = tree
               /\ ReturnToCaller(<<Top.num_descendent_categories,
                                   Top.num_descendent_series>>)
          ELSE IF cat_node = 0
          THEN outcome' = Raised("AttributeError") /\ frames' = frames /\ tree' = tree
          ELSE /\ tree' = [tree EXCEPT ![cat_node].tag = @ \o Annotation(Top)]
               /\ ReturnToCaller(<<Top.num_descendent_categories,
                                   Top.num_descendent_series>>)
    /\ UNCHANGED <<cacheFrame, cache_dict, stats, total_server_calls, last,
                   CONFIG, remote, slept, sent, app_stats>>

\* main after process_category has returned: write_tree_file,
\* save_cache_file and exit(0).
main_finish(io) ==
    /\ outcome.state = "returned"
    /\ outcome' = Exited(0)
    /\ file' = SaveResult(enabled, cache_dict, file, io)
    /\ saved' = IF ~enabled \/ io = "open_fails" THEN saved
                ELSE IF io = "ok" THEN Saved(cache_dict, written) ELSE NotSaved
    /\ last' = Call("save", "", PyNone, "none")
    /\ UNCHANGED <<config_enabled, enabled, cache_dict, stats,
                   cache_expiration_hours, now, steps, run, total_server_calls,
                   written, CONFIG, remote, slept, sent, frames, tree, app_stats>>

\* The program is run again, d minutes later, with the same configuration:
\* Application.initialize constructs the Cacher and the tree anew.
RestartDelays == {1, 1440}
main_again(d) ==
    /\ outcome.state \in {"exited", "raised"}
    /\ run < MaxRuns
    /\ run' = run + 1
    /\ now' = now + d
    /\ Constructed(config_enabled, file)
    /\ slept' = 0
    /\ sent' = NotSent
    /\ frames' = <<>>
    /\ tree' = InitialTree(CONFIG)
    /\ app_stats' = NewAppStats
    /\ outcome' = Idle
    /\ last' = Call("init", "", PyNone, "none")
    /\ UNCHANGED <<cache_expiration_hours, file, steps, saved, CONFIG, remote>>

\* The cache file and the cache setting a first run starts with: no file; a
\* file holding a JSON array.
CacheSetups ==
    {[enabled |-> TRUE, file |-> FileAbsent],
     [enabled |-> FALSE, file |-> FileAbsent],
     [enabled |-> TRUE, file |-> FileJson(JArray(<<>>))]}

\* The state Application.initialize leaves.
InitTree ==
    /\ \E c \in CacheSetups :
          /\ config_enabled = c.enabled
          /\ file = c.file
          /\ enabled = LoadResult(c.enabled, c.file).enabled
          /\ cache_dict = LoadResult(c.enabled, c.file).cache_dict
    /\ cache_expiration_hours = DEFAULT_CACHE_EXPIRATION
    /\ stats = NewStats
    /\ total_server_calls = 0
    /\ written = NoWrites
    /\ saved = NotSaved
    /\ now = 0
    /\ steps = 0
    /\ run = 1
    /\ last = [op |-> "init", key |-> "", ret |-> PyNone, exc |-> "none"]
    /\ CONFIG \in Configs
    /\ remote \in Remotes
    /\ slept = 0
    /\ sent = NotSent
    /\ frames = <<>>
    /\ tree = InitialTree(CONFIG)
    /\ app_stats = NewAppStats
    /\ outcome = Idle

NextTree ==
    \/ main_begin
    \/ process_category_enter
    \/ \E fails \in BOOLEAN : get_children_series(fails)
    \/ \E fails \in BOOLEAN : get_child_categories(fails)
    \/ process_category_child
    \/ process_category_return
    \/ \E io \in IoOutcomes : main_finish(io)
    \/ \E d \in RestartDelays : main_again(d)

\* Runs of main against a remote hierarchy, any live call failing or not.
SpecTree == InitTree /\ [][NextTree]_vars

(***************************************************************************)
(* Properties.  A step of an operation is recognised by the call it leaves *)
(* in "last"; every operation advances "steps".                            *)
(***************************************************************************)
ReadStep(k) == steps' # steps /\ last'.op = "read" /\ last'.key = k
RequestStep(u) == steps' # steps /\ last'.op = "request" /\ last'.key = u
SameProcess == steps' # steps /\ run' = run
NewProcess == steps' # steps /\ run' # run

TTL == Hours(cache_expiration_hours)
Age(k) == now - written[k].at

CounterNames == {"num_hits", "num_misses", "num_expired", "num_invalid"}
\* Counter c grows by one and the other three keep their values.
OnlyCounted(c) == stats' = [stats EXCEPT ![c] = @ + 1]

\* C1: on an enabled cache, after write_cached_data(k, v), a read_cached_data(k)
\* made while (now - write time) < TTL and with no later write to k returns
\* exactly v.
C1_ReadBackWithinTTL ==
    [][\A k \in Keys :
        (ReadStep(k) /\ written[k].set /\ Age(k) < TTL)
            => (last'.exc = "none" /\ last'.ret = written[k].v)]_vars

\* A read returned the value a write had stored under its key, the write made
\* after the clock had advanced and the read later still, within the TTL.
C1_Witness ==
    /\ last.op = "read"
    /\ enabled
    /\ written[last.key].set
    /\ written[last.key].at > 0
    /\ now > written[last.key].at
    /\ last.ret = written[last.key].v
    /\ last.ret = PyStr(Plain("b"))
    /\ stats.num_hits = 1

\* C2: for a key written to an enabled cache, every read of it made once the
\* TTL has elapsed returns None and adds one to num_expired, leaving num_hits,
\* num_misses and num_invalid unchanged; with a TTL of 24 h, a read 23 h 59 min
\* after the write is a hit returning the written value, and a read 24 h 01 min
\* after it returns None with num_expired incremented.
C2_ExpiredAfterTTL ==
    [][\A k \in Keys :
        /\ (ReadStep(k) /\ written[k].set /\ Age(k) >= TTL)
              => (last'.exc = "none" /\ last'.ret = PyNone
                  /\ OnlyCounted("num_expired"))
        /\ (ReadStep(k) /\ written[k].set /\ cache_expiration_hours = 24
              /\ Age(k) = 23 * 60 + 59)
              => (last'.ret = written[k].v /\ OnlyCounted("num_hits"))
        /\ (ReadStep(k) /\ written[k].set /\ cache_expiration_hours = 24
              /\ Age(k) = 24 * 60 + 1)
              => (last'.ret = PyNone /\ OnlyCounted("num_expired"))]_vars

\* A key was read as a hit 23 h 59 min after its write and read again, expired,
\* 24 h 01 min after it.
C2_Witness ==
    /\ last.op = "read"
    /\ written[last.key].set
    /\ cache_expiration_hours = 24
    /\ Age(last.key) = 24 * 60 + 1
    /\ last.ret = PyNone
    /\ stats.num_hits = 1
    /\ stats.num_expired = 1

\* The store is a dict and holds nothing under k.
NoEntry(k) == cache_dict.t = "dict" /\ k \notin DOMAIN cache_dict.m

\* The read returned None and counted a miss, and nothing else changed.
CountedMiss ==
    /\ last'.exc = "none"
    /\ last'.ret = PyNone
    /\ OnlyCounted("num_misses")
    /\ cache_dict' = cache_dict

NoParsableTimestamp(e) ==
    \/ e.t # "dict"
    \/ "timestamp" \notin DOMAIN e.m
    \/ FromIsoFormat(e.m.timestamp).exc # "none"

\* C4: for every entry present in the store whose timestamp is missing or
\* cannot be parsed, read_cached_data of its key returns None and adds one to
\* num_invalid, and never adds to num_hits, num_misses or num_expired.
C4_InvalidTimestamp ==
    [][\A k \in Keys :
        (/\ ReadStep(k)
         /\ enabled
         /\ cache_dict.t = "dict"
         /\ k \in DOMAIN cache_dict.m
         /\ NoParsableTimestamp(cache_dict.m[k]))
            => (last'.exc = "none" /\ last'.ret = PyNone
                /\ OnlyCounted("num_invalid"))]_vars

\* Some one of the four counters grows by one, the others keep their values.
ExactlyOneCounted == \E c \in CounterNames : OnlyCounted(c)
NoCounterDecreases == \A c \in CounterNames : stats'[c] >= stats[c]

C6_DisabledIsInert ==
    [][(SameProcess /\ ~enabled)
          => /\ cache_dict' = cache_dict
             /\ file' = file
             /\ last'.exc = "none"
             /\ (last'.op = "read" => last'.ret = PyNone)]_vars

\* A cache disabled by configuration beside a loadable file that holds entries
\* was read, after other calls, and the store is still empty.
C6_Witness ==
    /\ ~config_enabled
    /\ ~enabled
    /\ run = 1
    /\ steps >= 3
    /\ last.op = "read"
    /\ last.ret = PyNone
    /\ file.t = "json"
    /\ file.doc.j = "object"
    /\ cache_dict = EmptyDict

\* C7: a cache whose file is present but cannot be loaded disables itself at
\* load and stays disabled for the rest of the process, so that no later read,
\* write or save of the process changes the file; a load that finds no file
\* leaves the cache enabled with an empty store.
C7_FailedLoadDisables ==
    /\ (config_enabled /\ steps = 0 /\ file.t = "bad") => ~enabled
    /\ (config_enabled /\ steps = 0 /\ file.t = "absent")
          => (enabled /\ cache_dict = EmptyDict)
    /\ [][/\ (NewProcess /\ config_enabled' /\ file.t = "bad") => ~enabled'
          /\ (NewProcess /\ config_enabled' /\ file.t = "absent")
                => (enabled' /\ cache_dict' = EmptyDict)
          /\ (SameProcess /\ config_enabled /\ ~enabled)
                => (~enabled' /\ file' = file /\ file.t = "bad")]_vars

\* A later process, configured with the cache enabled, found the file that a
\* failed save of the process before had left, disabled itself, and was then
\* asked to write and to save: the file is as it found it.
C7_Witness ==
    /\ run = 2
    /\ config_enabled
    /\ ~enabled
    /\ file = FileBad(0)
    /\ last.op = "save"
    /\ steps >= 4

\* Every entry of store cd is one that a write put there.
AllWritten(cd, w) ==
    /\ cd.t = "dict"
    /\ \A k \in DOMAIN cd.m :
          /\ k \in Keys
          /\ w[k].set /\ cd.m[k].t = "dict"
          /\ DOMAIN cd.m[k].m = {"timestamp", "data"}

C9_NoExceptionEscapes == last.exc = "none"

\* C10 as stated: once a URL has been requested through make_caching_request
\* and its response stored, a later request for the same URL within the TTL
\* window, in the same run or in a later run that loaded the saved cache,
\* makes no live call and leaves the remote-call counter as it was.
C10_AsStated ==
    [][\A u \in Keys :
          (RequestStep(u) /\ written[u].set /\ Age(u) < TTL)
             => total_server_calls' = total_server_calls]_vars

\* C10: on an enabled cache, once a request for a URL has stored a response
\* that is neither None (a failed call) nor empty, a later request for the same
\* URL within the TTL window, in the same run or in a later run that loaded the
\* saved cache, makes no live call, leaves the remote-call counter as it was
\* and returns the stored response; when the stored response is None or empty
\* the later request makes one live call.
C10_NoLiveCallForStoredResponse ==
    [][\A u \in Keys :
          /\ (RequestStep(u) /\ written[u].set /\ Age(u) < TTL /\ Truthy(written[u].v))
                => /\ total_server_calls' = total_server_calls
                   /\ last'.exc = "none"
                   /\ last'.ret = written[u].v
          /\ (RequestStep(u) /\ written[u].set /\ Age(u) < TTL /\ ~Truthy(written[u].v))
                => total_server_calls' = total_server_calls + 1]_vars

\* A later run loaded the cache that the run before saved and answered a
\* request from it, some time after the response was stored, with no live call.
C10_Witness ==
    /\ run = 2
    /\ enabled
    /\ last.op = "request"
    /\ written[last.key].set
    /\ now > written[last.key].at
    /\ last.ret = PyStr(Plain("b"))
    /\ last.ret = written[last.key].v
    /\ total_server_calls = 0
    /\ stats.num_hits = 1

\* A step of make_caching_request in which make_api_request ran.
LiveCall == total_server_calls' = total_server_calls + 1

\* C11: make_caching_request creates or replaces a cache entry only after a
\* live call that returned a response body: a live call that failed (returned
\* None) leaves the store as it was, so it writes no entry for the request key
\* and replaces none.
C11_NoEntryAfterFailedCall ==
    [][\A u \in Keys :
          RequestStep(u)
             => /\ (cache_dict' # cache_dict) => (LiveCall /\ last'.ret # PyNone)
                /\ (LiveCall /\ last'.ret = PyNone) => cache_dict' = cache_dict]_vars

(***************************************************************************)
(* Properties of the request layer and of the traversal.                   *)
(***************************************************************************)
\* A step of get_rest_data that reached make_caching_request.
RestStep == last' # last /\ last'.op = "rest"

\* The keys the cache has been given or holds: the key of the last request,
\* the keys of the store and the keys of the cache file.
KeysInUse ==
    (IF last.op = "rest" THEN {last.key} ELSE {})
    \cup (IF cache_dict.t = "dict" THEN DOMAIN cache_dict.m ELSE {})
    \cup (IF file.t = "json" /\ file.doc.j = "object"
          THEN DOMAIN file.doc.members ELSE {})

\* C12: no key given to read_cached_data or write_cached_data, and so no key
\* of the store or of the cache file, contains the name of the credential
\* parameter or the value of the credential.
C12_NoCredentialInKeys ==
    \A k \in KeysInUse :
        /\ ~Contains(Lower(k), API_KEY_PARAM_NAME)
        /\ ~Contains(k, API_KEY)

\* What json.loads makes of data, and the empty result when it makes nothing.
DecodedOrEmpty(data) ==
    IF JsonLoads(data).exc = "none" THEN JsonLoads(data).ret ELSE EmptyDict

\* C13: a request of get_children_series or get_child_categories never raises
\* to process_category; when the remote call fails, the response does not
\* decode or the cache raises, the request returns the empty result; otherwise
\* it returns what its own response (live call) or its own cache entry (hit)
\* decodes to, and it leaves the cache entries of all other requests alone, so
\* the failure of one request does not change the result of the other.
C13_RequestsFallBackToEmpty ==
    [][RestStep
         => /\ last'.exc = "none"
            /\ last'.caught # "none" => last'.ret = EmptyDict
            /\ (last'.live /\ last'.caught = "none")
                  => last'.ret = DecodedOrEmpty(last'.response)
            /\ (~last'.live /\ last'.caught = "none")
                  => /\ cache_dict' = cache_dict
                     /\ last'.ret = DecodedOrEmpty(
                                       DictGet(cache_dict.m[last'.key], "data"))
            /\ cache_dict.t = "dict"
                  => \A k \in DOMAIN cache_dict.m \ {last'.key} :
                        /\ k \in DOMAIN cache_dict'.m
                        /\ cache_dict'.m[k] = cache_dict.m[k]]_vars

\* The child-categories request of a category failed and returned the empty
\* result after the series request of the same category had listed series.
C13_Witness ==
    /\ outcome = Running
    /\ last.op = "rest" /\ last.kind = "children"
    /\ last.live /\ last.response = PyNone
    /\ last.ret = EmptyDict
    /\ Top.pc = "label" /\ Top.num_series > 0

\* C14: every live call of a request sleeps THROTTLE seconds once, counts one
\* remote call and hands one URL to urlopen, so that THROTTLE seconds or more
\* lie between two consecutive live calls and the counter is the number of
\* live calls made; a request served from the cache does not sleep and leaves
\* the counter alone.
C14_OneDelayPerLiveCall ==
    /\ [](/\ slept = total_server_calls * CONFIG.THROTTLE
          /\ sent.n = total_server_calls)
    /\ [][RestStep
            => IF last'.live
               THEN /\ slept' = slept + CONFIG.THROTTLE
                    /\ total_server_calls' = total_server_calls + 1
                    /\ sent'.set /\ sent'.n = sent.n + 1
                    /\ sent'.at = slept'
                    /\ sent.set => sent'.at - sent.at >= CONFIG.THROTTLE
               ELSE /\ slept' = slept
                    /\ total_server_calls' = total_server_calls
                    /\ sent' = sent]_vars

\* A later run, with a throttle of two seconds, has made two live calls or
\* more and has just served a request from the cache.
C14_Witness ==
    /\ CONFIG.THROTTLE = 2
    /\ run = 2
    /\ total_server_calls >= 2
    /\ slept = 2 * total_server_calls
    /\ last.op = "rest" /\ ~last.live /\ last.caught = "none"
    /\ stats.num_hits > 0

\* The four counts of a frame.
Counts(f) == <<f.num_series, f.num_descendent_series,
               f.num_categories, f.num_descendent_categories>>

\* C15: process_category called on a category deeper than LIMIT_DEPTH returns
\* (0, 0) at once: it makes no request, creates no node, changes no label and
\* no statistic, and adds nothing to the counts of its caller; and no request
\* is ever made for a category deeper than LIMIT_DEPTH.
C15_BeyondDepthLimit ==
    /\ [][(At("enter") /\ Top.depth > CONFIG.LIMIT_DEPTH)
            => /\ UNCHANGED <<tree, app_stats, stats, cache_dict, last,
                              total_server_calls, slept, sent, file>>
               /\ IF Len(frames) = 1
                  THEN outcome' = Returned(<<0, 0>>)
                  ELSE /\ outcome' = Running
                       /\ Len(frames') = Len(frames) - 1
                       /\ \A j \in DOMAIN frames' :
                             Counts(frames'[j]) = Counts(frames[j])]_vars
    /\ [][RestStep => Top.depth <= CONFIG.LIMIT_DEPTH]_vars

\* A category at the depth limit goes on with its second child after the call
\* on its first child, one level too deep, has returned.
C15_Witness ==
    /\ At("child")
    /\ Top.depth = CONFIG.LIMIT_DEPTH
    /\ Top.i = 2
    /\ Top.num_descendent_categories = Top.num_categories
    /\ last.op = "rest" /\ last.kind = "children"
    /\ last.category = Str(CategoryID(Top))

\* The category nodes of the tree and the depth of a node (the root: 0).
CategoryNodes(t) == {i \in DOMAIN t : t[i].tag[1].part = "category"}
RECURSIVE NodeDepth(_, _)
NodeDepth(t, i) ==
    IF t[i].parent = NoParent THEN 0
    ELSE 1 + NodeDepth(t, GetNode(t, t[i].parent))
CategoriesDownTo(t, depth) ==
    {i \in CategoryNodes(t) : NodeDepth(t, i) <= depth}

\* C16 as stated: the descendant-category count the traversal returns counts
\* the categories at a depth of LIMIT_DEPTH or less, and no others (with
\* LIMIT_DEPTH 1, a root with two children of one child each returns 2).
C16_AsStated ==
    outcome.state = "returned"
       => outcome.ret[1] = Cardinality(CategoriesDownTo(tree, CONFIG.LIMIT_DEPTH))

\* C16: the descendant-category count the traversal returns counts the
\* categories at a depth of LIMIT_DEPTH + 1 or less: the categories one level
\* below the limit are listed by their parent, get a node and are counted,
\* but no request is made for them, so nothing deeper is known or counted.
C16_CountsOneLevelBelowLimit ==
    /\ [](outcome.state = "returned"
            => /\ outcome.ret[1]
                    = Cardinality(CategoriesDownTo(tree, CONFIG.LIMIT_DEPTH + 1))
               /\ CategoryNodes(tree)
                    = CategoriesDownTo(tree, CONFIG.LIMIT_DEPTH + 1))
    /\ [][RestStep
            => NodeDepth(tree, GetNode(tree, <<last'.category>>))
                  <= CONFIG.LIMIT_DEPTH]_vars

\* With LIMIT_DEPTH 1, the root with two children of one child each has
\* returned 4 after the six requests of the root and of its two children.
C16_Witness ==
    /\ remote.name = "two_levels"
    /\ CONFIG.LIMIT_DEPTH = 1
    /\ run = 1
    /\ outcome.state = "returned"
    /\ outcome.ret[1] = 4
    /\ total_server_calls = 6
    /\ Cardinality(CategoriesDownTo(tree, 1)) = 2
    /\ Cardinality(CategoryNodes(tree)) = 4

\* The series request of the top frame, and the frame after the step.
SeriesStep == RestStep /\ last'.kind = "series"
TopAfter == frames'[Len(frames')]

\* The total number of series a decoded series response reports.
ReportedTotal(response) ==
    IF response.t = "dict" /\ "count" \in DOMAIN response.m
          /\ response.m.count.t = "int"
    THEN response.m.count.n
    ELSE 0

\* The rollup series count the returning top frame hands to its caller.
ReturnedSeries == IF Top.pc = "enter" THEN 0 ELSE Top.num_descendent_series

\* How the rollup series counts of the frames change apart from the series
\* request: a return adds the rollup of the returning frame to the rollup of
\* its caller (the root hands it to main), a call starts a frame at 0, and no
\* other step changes the rollup of any frame.
RollupSeriesSteps ==
    /\ (outcome = Running /\ Len(frames') = Len(frames) - 1)
          => /\ \A j \in 1..(Len(frames) - 2) :
                   frames'[j].num_descendent_series
                      = frames[j].num_descendent_series
             /\ IF Len(frames) = 1
                THEN outcome'.state = "returned"
                     /\ outcome'.ret[2] = ReturnedSeries
                ELSE TopAfter.num_descendent_series
                        = frames[Len(frames) - 1].num_descendent_series
                          + ReturnedSeries
    /\ Len(frames') = Len(frames) + 1
          => /\ TopAfter.num_descendent_series = 0
             /\ \A j \in DOMAIN frames :
                   frames'[j].num_descendent_series
                      = frames[j].num_descendent_series
    /\ Len(frames') = Len(frames)
          => \A j \in DOMAIN frames :
                (j < Len(frames) \/ ~SeriesStep)
                   => frames'[j].num_descendent_series
                         = frames[j].num_descendent_series

\* C17 as stated: the rollup series count a visited category returns is the
\* total its series response reports plus the rollups its child categories
\* return, however many series items the response holds.
C17_AsStated ==
    [][/\ RollupSeriesSteps
       /\ (SeriesStep /\ outcome' = Running)
             => TopAfter.num_descendent_series = ReportedTotal(last'.ret)]_vars

\* C17: the rollup series count a visited category returns is its own count
\* plus the rollups its child categories return, for every display cap; its
\* own count is the total its series response reports when the response
\* holds one series item or more, and 0 when it holds none.
C17_RollupSeries ==
    [][/\ RollupSeriesSteps
       /\ (SeriesStep /\ outcome' = Running)
             => TopAfter.num_descendent_series
                   = IF Truthy(DictGet(last'.ret, "seriess"))
                     THEN ReportedTotal(last'.ret) ELSE 0]_vars

\* With a display cap of 1, a root whose two children report 5 and 1 series
\* (and hold 2 and 1 items) has returned the rollup 0 + 5 + 1.
C17_Witness ==
    /\ remote.name = "two_levels"
    /\ CONFIG.LIMIT_SERIES = 1
    /\ CONFIG.LIMIT_DEPTH = 1
    /\ outcome.state = "returned"
    /\ outcome.ret[2] = 6
    /\ app_stats.total_series = 6

\* The nodes a step creates under the category of the last request: the
\* series header nodes and the "additional series" nodes.
CreatedUnder(part) ==
    {i \in (Len(tree) + 1)..Len(tree') :
        /\ tree'[i].tag[1].part = part
        /\ tree'[i].parent = <<last'.category>>}
Min(a, b) == IF a < b THEN a ELSE b

\* C18: when the series response of a visited category reports a total T and
\* holds a list of items, the step creates min(number of items, LIMIT_SERIES)
\* series header nodes under the category, and one "additional series" node
\* that reports T minus the number of header nodes exactly when that
\* difference is positive.
C18_SeriesNodes ==
    [][(/\ SeriesStep
        /\ last'.ret.t = "dict"
        /\ DictGet(last'.ret, "count").t = "int"
        /\ DictGet(last'.ret, "seriess").t = "list")
          => /\ Cardinality(CreatedUnder("series"))
                  = Min(Len(DictGet(last'.ret, "seriess").items),
                        CONFIG.LIMIT_SERIES)
             /\ \A i \in CreatedUnder("plus") :
                   tree'[i].tag[1].n
                      = ReportedTotal(last'.ret) - Cardinality(CreatedUnder("series"))
             /\ Cardinality(CreatedUnder("plus"))
                  = IF ReportedTotal(last'.ret)
                          - Cardinality(CreatedUnder("series")) > 0
                    THEN 1 ELSE 0]_vars

\* The child-categories request of the top frame.
ChildrenStep == RestStep /\ last'.kind = "children"

\* The request of the step failed: the remote call failed, or the body it got
\* is no JSON or decodes to something that is no mapping.
FailedRequest ==
    /\ last'.live
    /\ \/ last'.response = PyNone
       \/ JsonLoads(last'.response).exc # "none"
       \/ JsonLoads(last'.response).ret.t # "dict"

\* C19: a failed child-categories request leaves the category with 0 direct
\* and 0 descendant categories and with the series it has counted, and the
\* traversal goes on; a failed series request leaves the category with 0
\* series, and the traversal goes on with the child-categories request.
C19_FailedRequestCountsZero ==
    [][/\ (ChildrenStep /\ FailedRequest)
             => /\ outcome' = Running
                /\ tree' = tree
                /\ TopAfter.pc = "label"
                /\ TopAfter.num_categories = 0
                /\ TopAfter.num_descendent_categories = 0
                /\ TopAfter.num_series = Top.num_series
                /\ TopAfter.num_descendent_series = Top.num_descendent_series
       /\ (SeriesStep /\ FailedRequest)
             => /\ outcome' = Running
                /\ tree' = tree
                /\ TopAfter.pc = "children"
                /\ TopAfter.num_series = 0
                /\ TopAfter.num_descendent_series = 0]_vars

\* C20: no failure of a remote call and no malformed or incomplete response
\* aborts the traversal: once begun, it is never ended by an exception.
C20_NeverAborted == outcome.state # "raised"

\* The number of child categories a decoded child-categories response lists.
ListedCategories(response) ==
    IF DictGet(response, "categories").t = "list"
    THEN Len(DictGet(response, "categories").items)
    ELSE 0

\* The descendant-category count the returning top frame hands to its caller.
ReturnedCategories ==
    IF Top.pc = "enter" THEN 0 ELSE Top.num_descendent_categories

\* C21: the descendant-category count a visited category returns is the number
\* of child categories its response lists plus the counts the calls on those
\* children return: the child-categories request sets the count of its frame
\* to the number listed, a call starts at 0 (a category does not count
\* itself), every return adds the returned count to the count of the caller,
\* and no other step changes the count of any frame.
C21_RollupCategories ==
    [][/\ (ChildrenStep /\ outcome' = Running)
             => /\ TopAfter.num_categories = ListedCategories(last'.ret)
                /\ TopAfter.num_descendent_categories
                      = ListedCategories(last'.ret)
       /\ (outcome = Running /\ Len(frames') = Len(frames) - 1)
             => /\ \A j \in 1..(Len(frames) - 2) :
                      frames'[j].num_descendent_categories
                         = frames[j].num_descendent_categories
                /\ IF Len(frames) = 1
                   THEN outcome'.state = "returned"
                        /\ outcome'.ret[1] = ReturnedCategories
                   ELSE TopAfter.num_descendent_categories
                           = frames[Len(frames) - 1].num_descendent_categories
                             + ReturnedCategories
       /\ Len(frames') = Len(frames) + 1
             => /\ TopAfter.num_descendent_categories = 0
                /\ \A j \in DOMAIN frames :
                      frames'[j].num_descendent_categories
                         = frames[j].num_descendent_categories
       /\ Len(frames') = Len(frames)
             => \A j \in DOMAIN frames :
                   (j < Len(frames) \/ ~ChildrenStep)
                      => frames'[j].num_descendent_categories
                            = frames[j].num_descendent_categories]_vars

\* The root lists two children, both calls on them have returned 1 (each
\* child lists one child of its own), and the root counts 2 + 1 + 1.
C21_Witness ==
    /\ At("child")
    /\ Len(frames) = 1
    /\ Top.num_categories = 2
    /\ Top.i = 3
    /\ Top.num_descendent_categories = 4

\* The places of process_category a frame may go to from a place.
NextPlaces(pc) ==
    CASE pc = "enter" -> {"enter", "series"}
      [] pc = "series" -> {"series", "children"}
      [] pc = "children" -> {"children", "child", "label"}
      [] pc = "child" -> {"child"}
      [] pc = "label" -> {"label"}

\* Node k of the tree lies in the subtree of node a.
RECURSIVE InSubtree(_, _, _)
InSubtree(t, k, a) ==
    IF k = a THEN TRUE
    ELSE IF t[k].parent = NoParent THEN FALSE
    ELSE InSubtree(t, GetNode(t, t[k].parent), a)

\* A step in which process_category calls itself on a child category.
CallStep == outcome = Running /\ outcome' = Running
               /\ Len(frames') = Len(frames) + 1 /\ frames # <<>>

\* C22: within a visited category the series request comes before the
\* child-categories request, the child categories are taken in the order the
\* response lists them, the node of a child is created in the step that
\* calls process_category on it, and when the node of the next sibling is
\* created every node made since the node of the previous sibling lies in
\* the subtree of that sibling, whose call has returned.
C22_FixedOrder ==
    /\ [][/\ SeriesStep => Top.pc = "series"
          /\ ChildrenStep
                => /\ Top.pc = "children"
                   /\ (outcome' = Running /\ TopAfter.pc = "child")
                         => /\ TopAfter.i = 1
                            /\ TopAfter.categories
                                  = DictGet(last'.ret, "categories").items
          /\ (run' = run /\ frames # <<>>)
                => \A j \in DOMAIN frames \cap DOMAIN frames' :
                      /\ frames'[j].pc \in NextPlaces(frames[j].pc)
                      /\ frames[j].pc = "child"
                            => /\ frames'[j].categories = frames[j].categories
                               /\ frames'[j].i \in {frames[j].i, frames[j].i + 1}
          /\ CallStep
                => /\ Top.pc = "child"
                   /\ frames'[Len(frames)] = Top
                   /\ TopAfter.categoryDict = Top.categories[Top.i]
                   /\ TopAfter.pc = "enter"
                   /\ Len(tree') = Len(tree) + 1
                   /\ tree'[Len(tree')].identifier
                         = <<Str(Top.categories[Top.i].m.id)>>
                   /\ tree'[Len(tree')].parent = <<Str(CategoryID(Top))>>
                   /\ Top.i > 1
                         => \A k \in DOMAIN tree :
                               k >= GetNode(tree, <<Str(Top.categories[Top.i - 1].m.id)>>)
                                  => InSubtree(tree, k,
                                        GetNode(tree, <<Str(Top.categories[Top.i - 1].m.id)>>))
          /\ (outcome = Running /\ Len(frames') = Len(frames) - 1
                /\ Len(frames) > 1)
                => TopAfter.i = frames[Len(frames) - 1].i + 1]_vars
    /\ [](\A j \in DOMAIN frames :
             /\ j > 1 => GetNode(tree, <<Str(CategoryID(frames[j]))>>) # 0
             /\ j < Len(frames) => frames[j].pc = "child")

\* The node of the second child of the root has just been created, after the
\* first child made its requests and its nodes (series and its own child).
C22_Witness ==
    /\ At("enter")
    /\ Len(frames) = 2
    /\ frames[1].i = 2
    /\ CONFIG.LIMIT_DEPTH = 1
    /\ remote.name = "two_levels"
    /\ Len(tree) >= 6
    /\ tree[Len(tree)].identifier = <<"2">>
    /\ total_server_calls = 4

\* The two parts of the rollup text of the top frame.
CategoriesPart ==
    [part |-> "contains_categories", direct |-> Top.num_categories,
     descendent |-> Top.num_descendent_categories]
SeriesPart ==
    [part |-> "contains_series", direct |-> Top.num_series,
     descendent |-> Top.num_descendent_series]

\* The top frame has made both requests and the calls on all its children
\* have returned.
AllProcessed ==
    /\ outcome = Running /\ frames # <<>>
    /\ \/ Top.pc = "label"
       \/ Top.pc = "child" /\ Top.i > Len(Top.categories)

\* The step changes the label of node n of the tree.
Relabelled(n) == run' = run /\ n \in DOMAIN tree' /\ tree'[n].tag # tree[n].tag

\* The step changes a label once, at the end of the visit of the category of
\* the label, and the top frame returns.
LabelledAtEnd(n) ==
    /\ AllProcessed
    /\ tree[n].identifier = <<Str(CategoryID(Top))>>
    /\ Len(tree[n].tag) = 1
    /\ Len(frames') = Len(frames) - 1

\* C23 as stated: a label is changed at most once, at the end of the visit of
\* its category, when one of the rollup totals is not zero, and what is
\* appended lists the category counts followed by the series counts.
C23_AsStated ==
    [][/\ \A n \in DOMAIN tree :
             Relabelled(n)
                => /\ LabelledAtEnd(n)
                   /\ tree'[n].tag = tree[n].tag \o <<CategoriesPart, SeriesPart>>
       /\ (AllProcessed /\ Len(frames') = Len(frames) - 1
             /\ (Top.num_descendent_categories > 0
                    \/ Top.num_descendent_series > 0))
             => Relabelled(GetNode(tree, <<Str(CategoryID(Top))>>))]_vars

\* C23: a label is changed at most once, at the end of the visit of its
\* category (after its series and the calls on all its child categories);
\* the category counts are appended when one of them is not zero, then the
\* series counts when one of them is not zero, so a category with counts of
\* one kind only gets the text of that kind only; the label of a category
\* deeper than LIMIT_DEPTH stays as it was created.
C23_LabelAnnotatedOnce ==
    /\ [][/\ \A n \in DOMAIN tree :
                Relabelled(n)
                   => /\ LabelledAtEnd(n)
                      /\ tree'[n].tag
                            = tree[n].tag
                              \o (IF Top.num_categories > 0
                                     \/ Top.num_descendent_categories > 0
                                  THEN <<CategoriesPart>> ELSE <<>>)
                              \o (IF Top.num_series > 0
                                     \/ Top.num_descendent_series > 0
                                  THEN <<SeriesPart>> ELSE <<>>)
          /\ (AllProcessed /\ Len(frames') = Len(frames) - 1
                /\ (Top.num_descendent_categories > 0
                       \/ Top.num_descendent_series > 0))
                => Relabelled(GetNode(tree, <<Str(CategoryID(Top))>>))]_vars
    /\ [](\A n \in CategoryNodes(tree) :
             NodeDepth(tree, n) > CONFIG.LIMIT_DEPTH => Len(tree[n].tag) = 1)

\* A category that lists no child category and reports series has returned
\* with the series counts alone appended to its label.
C23_Witness ==
    /\ outcome = Running
    /\ \E n \in CategoryNodes(tree) :
          /\ Len(tree[n].tag) = 2
          /\ tree[n].tag[2].part = "contains_series"
          /\ tree[n].tag[2].descendent > 0

\* C24: the tree is well formed in every state: the first node is the root
\* and the only node without a parent, the parent of every other node is a
\* node created before it, and no two nodes have the same identifier; within
\* a run no node is removed and no node changes its identifier or its parent.
C24_TreeWellFormed ==
    /\ [](/\ tree # <<>>
          /\ \A i \in DOMAIN tree :
                /\ (tree[i].parent = NoParent) <=> (i = 1)
                /\ i > 1 => \E j \in 1..(i - 1) :
                               tree[j].identifier = tree[i].parent
                /\ \A j \in DOMAIN tree :
                      tree[j].identifier = tree[i].identifier => j = i)
    /\ [][run' = run
            => /\ Len(tree') >= Len(tree)
               /\ \A i \in DOMAIN tree :
                     /\ tree'[i].identifier = tree[i].identifier
                     /\ tree'[i].parent = tree[i].parent]_vars

\* A finished traversal has left a tree of category nodes, series header
\* nodes with nodes below them, an "additional series" node and an annotated
\* root.
C24_Witness ==
    /\ outcome.state = "returned"
    /\ Len(tree[1].tag) > 1
    /\ Cardinality(CategoryNodes(tree)) = 4
    /\ \E i, j, k \in DOMAIN tree :
          /\ tree[i].tag[1].part = "series"
          /\ tree[j].parent = tree[i].identifier
          /\ tree[k].tag[1].part = "plus"

\* C25: a read counted as a hit delivers a value: in a step of
\* make_caching_request that counts a hit no live call is made and the stored
\* value, which is not None, is returned.
C25_HitDeliversValue ==
    [][\A u \in Keys :
          (RequestStep(u) /\ stats'.num_hits = stats.num_hits + 1)
             => /\ ~LiveCall
                /\ last'.ret # PyNone]_vars

\* The sums of the descendant counts of the first n frames: what the calls
\* in progress have counted so far, each count in the frame that made it or
\* in the caller it was returned to.
RECURSIVE SumCategories(_, _)
SumCategories(fs, n) ==
    IF n = 0 THEN 0
    ELSE fs[n].num_descendent_categories + SumCategories(fs, n - 1)
RECURSIVE SumSeries(_, _)
SumSeries(fs, n) ==
    IF n = 0 THEN 0
    ELSE fs[n].num_descendent_series + SumSeries(fs, n - 1)

\* C26: the statistics agree with the rollups.  While the traversal runs,
\* total_categories and total_series are the sums of the descendant counts
\* of the calls in progress; so between the begin of a call and its return
\* the totals grow by the pair the call returns (a return moves the count of
\* the returning frame into its caller and leaves the totals as they are),
\* and when the root call returns (C, S), total_categories = C and
\* total_series = S.
C26_StatsAgreeWithRollups ==
    /\ [](/\ outcome = Running
             => /\ app_stats.total_categories = SumCategories(frames, Len(frames))
                /\ app_stats.total_series = SumSeries(frames, Len(frames))
          /\ outcome.state = "returned"
             => /\ app_stats.total_categories = outcome.ret[1]
                /\ app_stats.total_series = outcome.ret[2])
    /\ [][(outcome = Running /\ Len(frames') = Len(frames) - 1)
            => /\ app_stats' = app_stats
               /\ Len(frames) > 1
                     => /\ SumCategories(frames', Len(frames'))
                            = SumCategories(frames, Len(frames))
                        /\ SumSeries(frames', Len(frames'))
                            = SumSeries(frames, Len(frames))]_vars

\* A child of the root has returned its counts while the root call is still
\* in progress, and the statistics hold what the root has counted so far.
C26_Witness ==
    /\ At("child")
    /\ Len(frames) = 1
    /\ Top.i = 2
    /\ Top.num_descendent_categories > Top.num_categories
    /\ Top.num_descendent_series > 0
    /\ app_stats.total_categories = Top.num_descendent_categories
    /\ app_stats.total_series = Top.num_descendent_series

====
